---- MODULE Spec2Model ----
(***************************************************************************)
(* To-Do List & Streak Tracker (streamlit_app.py).                         *)
(*                                                                         *)
(* The application is a Streamlit script: every user interaction re-runs   *)
(* the whole script from load_data() to the goals section, with the widget *)
(* that was used reporting its new value in that run.  An action of this   *)
(* model is one script run triggered by one interaction; the run is the    *)
(* composition of the script's sections, each an operator on the run        *)
(* record [data, file, status, ...].  st.experimental_rerun() ends a run    *)
(* at once and the script is run again with no widget event.               *)
(*                                                                         *)
(* datetime.date.today() is read as one value within a run; file writes    *)
(* do not fail.                                                            *)
(***************************************************************************)
EXTENDS Integers, Sequences, FiniteSets, TLC

\* ---------------------------------------------------------------- bounds
MaxDay == 3        \* days of the modelled calendar
MaxClicks == 3     \* widget interactions of one behaviour
MaxEntries == 3    \* entries of a streaks map given to the pure functions

VARIABLES
    file,      \* content of todo_data.json
    data,      \* the script's `data` at the end of the last run
    status,    \* "init" | "done" | "rerun" | "crashed": how the last run ended
    today,     \* ordinal of datetime.date.today()
    clicks,    \* widget interactions so far
    last,      \* kind of the widget event of the last run
    cause,     \* kind of the event whose run asked for the re-run
    hist,      \* "added" after an Add Task run, "set0" when the first task's
               \* checkbox was ticked right after it, else "idle"
    snap,      \* `data` and today's key right after line 166 of the last run
    shown,     \* current_streak of line 203 of the last run
    report,    \* message of the streak buttons in the last run
    eng        \* the pure functions applied to a drawn streaks map

vars == <<file, data, status, today, clicks, last, cause, hist, snap, shown, report, eng>>

\* ------------------------------------------------------- dates and keys
\* The calendar: 2024-01-30, 2024-01-31, 2024-02-01, 2024-02-02, ...
DateOf(n) == IF n <= 2 THEN <<2024, 1, 29 + n>> ELSE <<2024, 2, n - 2>>

Dates == {DateOf(n) : n \in 1..MaxDay}

NoDate == <<0, 0, 0>>

Pad2(n) == IF n < 10 THEN "0" \o ToString(n) ELSE ToString(n)

\* YYYY-MM-DD, zero padded
FormatIso(d) == ToString(d[1]) \o "-" \o Pad2(d[2]) \o "-" \o Pad2(d[3])

IsoTable == [d \in Dates |-> FormatIso(d)]

\* date.isoformat()
isoformat(d) == IsoTable[d]

\* The same date written without zero padding, as a hand-edited file may hold it.
Unpadded(d) == ToString(d[1]) \o "-" \o ToString(d[2]) \o "-" \o ToString(d[3])

\* The strings that strptime(k, "%Y-%m-%d") reads as date d: %m and %d match
\* one or two digits, so the padding of either is optional.
StrptimeForms(d) ==
    {ToString(d[1]) \o "-" \o m \o "-" \o dd :
        m \in {Pad2(d[2]), ToString(d[2])}, dd \in {Pad2(d[3]), ToString(d[3])}}

StrptimeTable ==
    [k \in UNION {StrptimeForms(d) : d \in Dates} |->
        CHOOSE d \in Dates : k \in StrptimeForms(d)]

\* datetime.datetime.strptime(k, "%Y-%m-%d").date(); NoDate when it raises
strptime(k) == IF k \in DOMAIN StrptimeTable THEN StrptimeTable[k] ELSE NoDate

\* date comparison
DateLess(a, b) ==
    \/ a[1] < b[1]
    \/ a[1] = b[1] /\ a[2] < b[2]
    \/ a[1] = b[1] /\ a[2] = b[2] /\ a[3] < b[3]

\* ------------------------------------------------- dicts (insertion order)
\* A Python dict str -> bool is a sequence of [k, v] with distinct keys.
Keys(sd) == {sd[i].k : i \in 1..Len(sd)}

HasKey(sd, k) == k \in Keys(sd)

Get(sd, k) == sd[CHOOSE i \in 1..Len(sd) : sd[i].k = k].v

\* d[k] = v: in place for a key of d, appended otherwise
SetItem(sd, k, v) ==
    IF HasKey(sd, k)
    THEN [i \in 1..Len(sd) |-> IF sd[i].k = k THEN [k |-> k, v |-> v] ELSE sd[i]]
    ELSE Append(sd, [k |-> k, v |-> v])

\* list.pop(i), i counted from 1
Pop(s, i) == SubSeq(s, 1, i - 1) \o SubSeq(s, i + 1, Len(s))

\* ---------------------------------------------------------- parse_streaks
\* list.sort(key=date) is stable: x goes after the entries not later than it
InsertSorted(x, s) ==
    LET pos == Cardinality({i \in 1..Len(s) : ~DateLess(x.d, s[i].d)})
    IN SubSeq(s, 1, pos) \o <<x>> \o SubSeq(s, pos + 1, Len(s))

RECURSIVE SortByDate(_)
SortByDate(s) ==
    IF s = <<>> THEN <<>>
    ELSE InsertSorted(s[Len(s)], SortByDate(SubSeq(s, 1, Len(s) - 1)))

ValidEntry(e) == strptime(e.k) # NoDate

ParsedUnsorted(sd) ==
    LET valid == SelectSeq(sd, ValidEntry)
    IN [i \in 1..Len(valid) |-> [d |-> strptime(valid[i].k), done |-> valid[i].v]]

parse_streaks(sd) == SortByDate(ParsedUnsorted(sd))

\* ------------------------------------------------- compute_current_streak
\* the loop without its `else: break`
RECURSIVE CountBack_noBreak(_, _)
CountBack_noBreak(parsed, i) ==
    IF i = 0 THEN 0
    ELSE (IF parsed[i].done THEN 1 ELSE 0) + CountBack_noBreak(parsed, i - 1)

RECURSIVE CountBack(_, _)
CountBack(parsed, i) ==
    IF i = 0 THEN 0
    ELSE IF parsed[i].done THEN 1 + CountBack(parsed, i - 1)
    ELSE 0

compute_current_streak(parsed) == CountBack(parsed, Len(parsed))

\* ---------------------------------------------------- monthly streak chart
MonthOf(d) == <<d[1], d[2]>>

MonthLess(a, b) == a[1] < b[1] \/ (a[1] = b[1] /\ a[2] < b[2])

RECURSIVE SortedMonths(_)
SortedMonths(S) ==
    IF S = {} THEN <<>>
    ELSE LET m == CHOOSE x \in S : \A y \in S : ~MonthLess(y, x)
         IN <<m>> \o SortedMonths(S \ {m})

\* the rows filtered on done before the groupby: a month without a completed
\* day loses its bar
monthly_streak_doneOnly(sd) ==
    LET rows == SelectSeq(sd, LAMBDA e : ValidEntry(e) /\ e.v)
        months == {MonthOf(strptime(rows[i].k)) : i \in 1..Len(rows)}
        order == SortedMonths(months)
    IN [j \in 1..Len(order) |->
          [month |-> order[j],
           done |-> Cardinality({i \in 1..Len(rows) :
                       MonthOf(strptime(rows[i].k)) = order[j]})]]

\* to_datetime(errors="coerce") / dropna / to_period("M") / groupby.sum:
\* one row per month of a parsable key, months ascending, done summed.
\* pandas reads the keys modelled here as strptime does.
monthly_streak(sd) ==
    LET rows == SelectSeq(sd, ValidEntry)
        months == {MonthOf(strptime(rows[i].k)) : i \in 1..Len(rows)}
        order == SortedMonths(months)
    IN [j \in 1..Len(order) |->
          [month |-> order[j],
           done |-> Cardinality({i \in 1..Len(rows) :
                       MonthOf(strptime(rows[i].k)) = order[j] /\ rows[i].v})]]

\* ------------------------------------------------------------ the document
DayKeys == {isoformat(d) : d \in Dates}

\* dict insertion order of data["goals"] in the default document
SegOrder == <<"weekly", "monthly", "3_months", "6_months">>

Segments == {SegOrder[i] : i \in 1..Len(SegOrder)}

\* goal_type.lower().replace(" ", "_")
segment_key(label) ==
    CASE label = "Weekly" -> "weekly"
      [] label = "Monthly" -> "monthly"
      [] label = "3 Months" -> "3_months"
      [] label = "6 Months" -> "6_months"

\* data["tasks"]: per day key, whether the key is in the dict and its list
NoTasks == [has |-> FALSE, items |-> <<>>]

DefaultDoc(day) ==
    [start_date |-> isoformat(day),
     tasks |-> [k \in DayKeys |-> NoTasks],
     streaks |-> <<>>,
     goals |-> [s \in Segments |-> <<>>],
     main_goal |-> [goal |-> "", progress |-> 0]]

Absent == [kind |-> "absent"]
Malformed == [kind |-> "malformed"]
json_dump(doc) == [kind |-> "json", doc |-> doc]

NoData == [loaded |-> FALSE]
Loaded(doc) == [loaded |-> TRUE, doc |-> doc]

\* load_data(): the default document when the file does not exist, else
\* json.load(f), which raises JSONDecodeError on text that is not JSON.
load_data(f, day) ==
    IF f.kind = "absent" THEN [raised |-> FALSE, doc |-> DefaultDoc(day)]
    ELSE IF f.kind = "json" THEN [raised |-> FALSE, doc |-> f.doc]
    ELSE [raised |-> TRUE]

\* save_data(data)
save_data(r) == [r EXCEPT !.file = json_dump(r.data)]

\* st.experimental_rerun()
experimental_rerun(r) == [r EXCEPT !.status = "rerun"]

Raise(r) == [r EXCEPT !.status = "crashed"]

NoEvent == [kind |-> "none"]

\* ------------------------------------------------- sections of the script
\* Sidebar: challenge start date
StartDateSection(r, ev, day) ==
    IF r.status # "running" THEN r
    ELSE LET p == strptime(r.data.start_date)
             start_date == IF p = NoDate THEN day ELSE p
             new_start == IF ev.kind = "changeStart" THEN ev.date ELSE start_date
             r1 == IF new_start # start_date
                   THEN save_data([r EXCEPT !.data.start_date = isoformat(new_start)])
                   ELSE r
         IN IF strptime(r1.data.start_date) = NoDate THEN Raise(r1) ELSE r1

\* Main goal form
MainGoalSection(r, ev) ==
    IF r.status # "running" THEN r
    ELSE IF ev.kind = "saveMainGoal"
         THEN save_data([r EXCEPT !.data.main_goal =
                            [goal |-> ev.goal, progress |-> ev.progress]])
         ELSE r

\* Add task form
AddTaskSection(r, ev, day) ==
    IF r.status # "running" THEN r
    ELSE IF ev.kind = "addTask"
         THEN LET t == isoformat(day)
                  old == r.data.tasks[t]
                  lst == IF old.has THEN old.items ELSE <<>>
                  new == Append(lst, [task |-> ev.task, priority |-> ev.priority,
                                      done |-> FALSE])
              IN save_data([r EXCEPT !.data.tasks[t] = [has |-> TRUE, items |-> new]])
         ELSE r

\* every checkbox under one widget key: a click on one of them flips them all
Checked_sharedKey(item, ev, i) ==
    IF ev.kind = "toggleTask" THEN ~item.done ELSE item.done

\* st.checkbox("Done", value=t.get("done"), key=...): the stored value, or its
\* negation in the run the user's click on that checkbox triggers
Checked(item, ev, i) ==
    IF ev.kind = "toggleTask" /\ ev.index = i THEN ~item.done ELSE item.done

\* the for loop over today's tasks, from index i on
RECURSIVE TaskLoop(_, _, _, _)
TaskLoop(r, ev, t, i) ==
    IF i > Len(r.data.tasks[t].items) THEN save_data(r)
    ELSE LET r1 == [r EXCEPT !.data.tasks[t].items[i].done =
                                 Checked(r.data.tasks[t].items[i], ev, i)]
         IN IF ev.kind = "deleteTask" /\ ev.index = i
            THEN experimental_rerun(save_data(
                     [r1 EXCEPT !.data.tasks[t].items = Pop(r1.data.tasks[t].items, i)]))
            ELSE TaskLoop(r1, ev, t, i + 1)

\* Today's tasks
TasksSection(r, ev, day) ==
    IF r.status # "running" THEN r
    ELSE LET t == isoformat(day)
         IN IF r.data.tasks[t].items # <<>> THEN TaskLoop(r, ev, t, 1) ELSE r

\* any() written for all()
completed_today_any(doc, t) ==
    IF doc.tasks[t].has
    THEN \E i \in 1..Len(doc.tasks[t].items) : doc.tasks[t].items[i].done
    ELSE FALSE

\* all(t.get("done") for t in tasks[today]) if today in tasks else False
completed_today(doc, t) ==
    IF doc.tasks[t].has
    THEN \A i \in 1..Len(doc.tasks[t].items) : doc.tasks[t].items[i].done
    ELSE FALSE

\* Update today's streak value based on tasks
RecomputeSection(r, day) ==
    IF r.status # "running" THEN r
    ELSE LET t == isoformat(day)
             r1 == save_data([r EXCEPT !.data.streaks =
                                 SetItem(r.data.streaks, t, completed_today(r.data, t))])
         IN [r1 EXCEPT !.snap = [loaded |-> TRUE, doc |-> r1.data, key |-> t]]

\* the button without its save_data(data)
ResetTodaySection_noSave(r, ev, day) ==
    IF r.status # "running" THEN r
    ELSE IF ev.kind = "resetToday"
         THEN experimental_rerun(
                  [r EXCEPT !.data.streaks = SetItem(r.data.streaks, isoformat(day), FALSE),
                            !.report = "today_reset"])
         ELSE r

\* Reset Today's Streak button
ResetTodaySection(r, ev, day) ==
    IF r.status # "running" THEN r
    ELSE IF ev.kind = "resetToday"
         THEN experimental_rerun(
                  [save_data([r EXCEPT !.data.streaks =
                                 SetItem(r.data.streaks, isoformat(day), FALSE)])
                      EXCEPT !.report = "today_reset"])
         ELSE r

\* for d, done in reversed(parsed): if done: most_recent_true = d; break
RECURSIVE MostRecentTrue(_, _)
MostRecentTrue(parsed, i) ==
    IF i = 0 THEN NoDate
    ELSE IF parsed[i].done THEN parsed[i].d
    ELSE MostRecentTrue(parsed, i - 1)

\* Current streak and the Reset Current Streak button
CurrentStreakSection(r, ev) ==
    IF r.status # "running" THEN r
    ELSE LET parsed == parse_streaks(r.data.streaks)
             r1 == [r EXCEPT !.shown = compute_current_streak(parsed)]
             most_recent_true == MostRecentTrue(parsed, Len(parsed))
         IN IF ev.kind # "resetCurrent" THEN r1
            ELSE IF most_recent_true # NoDate
            THEN experimental_rerun(
                     [save_data([r1 EXCEPT !.data.streaks =
                                    SetItem(r1.data.streaks,
                                            isoformat(most_recent_true), FALSE)])
                         EXCEPT !.report = "broken"])
            ELSE [r1 EXCEPT !.report = "nothing"]

\* Add Goal button (every document here holds the four segment keys, so
\* `key not in data["goals"]` is false)
AddGoalSection(r, ev) ==
    IF r.status # "running" THEN r
    ELSE IF ev.kind = "addGoal"
         THEN LET key == segment_key(ev.goal_type)
              IN save_data([r EXCEPT !.data.goals[key] =
                               Append(@, [goal |-> ev.goal, done |-> FALSE])])
         ELSE r

GoalChecked(g, ev, seg, i) ==
    IF ev.kind = "toggleGoal" /\ ev.seg = seg /\ ev.index = i THEN ~g.done ELSE g.done

\* the for loop over the goals of segment seg, from index i on
RECURSIVE GoalLoop(_, _, _, _)
GoalLoop(r, ev, seg, i) ==
    IF i > Len(r.data.goals[seg]) THEN save_data(r)
    ELSE LET r1 == [r EXCEPT !.data.goals[seg][i].done =
                                 GoalChecked(r.data.goals[seg][i], ev, seg, i)]
         IN IF ev.kind = "deleteGoal" /\ ev.seg = seg /\ ev.index = i
            THEN experimental_rerun(save_data(
                     [r1 EXCEPT !.data.goals[seg] = Pop(r1.data.goals[seg], i)]))
            ELSE GoalLoop(r1, ev, seg, i + 1)

\* for seg, goals in data["goals"].items(), from the s-th segment on
RECURSIVE SegLoop(_, _, _)
SegLoop(r, ev, s) ==
    IF s > Len(SegOrder) \/ r.status # "running" THEN r
    ELSE LET seg == SegOrder[s]
             r1 == IF r.data.goals[seg] # <<>> THEN GoalLoop(r, ev, seg, 1) ELSE r
         IN SegLoop(r1, ev, s + 1)

GoalsSection(r, ev) == SegLoop(AddGoalSection(r, ev), ev, 1)

\* One run of the script on file f with widget event ev on date `day`.  The
\* chart section (lines 180-197) only draws and leaves data alone.
RunScript(f, ev, day) ==
    LET ld == load_data(f, day)
        r0 == [data |-> ld.doc, file |-> f, status |-> "running",
               snap |-> NoData, shown |-> 0, report |-> "none"]
        r1 == StartDateSection(r0, ev, day)
        r2 == MainGoalSection(r1, ev)
        r3 == AddTaskSection(r2, ev, day)
        r4 == TasksSection(r3, ev, day)
        r5 == RecomputeSection(r4, day)
        r6 == ResetTodaySection(r5, ev, day)
        r7 == CurrentStreakSection(r6, ev)
        r8 == GoalsSection(r7, ev)
    IN IF ld.raised
       THEN [data |-> NoData, file |-> f, status |-> "crashed",
             snap |-> NoData, shown |-> 0, report |-> "none"]
       ELSE [r8 EXCEPT !.data = Loaded(r8.data),
                       !.status = IF @ = "running" THEN "done" ELSE @]

\* ------------------------------------------------------------ user inputs
TaskNames == {"X"}
Priorities == {"High"}      \* the priority only picks the icon of a task
GoalTypes == {"Weekly", "3 Months"}
GoalTexts == {"G"}
MainGoals == {[goal |-> "M", progress |-> 50]}

\* keys a file written by hand (or by another program) may hold in "streaks"
ForeignKeys == {Unpadded(DateOf(1)), "not-a-date"}

LegacyFiles ==
    {json_dump([DefaultDoc(DateOf(1)) EXCEPT !.streaks = <<[k |-> k, v |-> TRUE]>>]) :
        k \in ForeignKeys}

EngOff == [stage |-> "off"]

Init ==
    /\ file \in {Absent, Malformed} \cup LegacyFiles
    /\ data = NoData
    /\ status = "init"
    /\ today = 1
    /\ clicks = 0
    /\ last = "none"
    /\ cause = "none"
    /\ hist = "idle"
    /\ snap = NoData
    /\ shown = 0
    /\ report = "none"
    /\ eng = EngOff

\* ------------------------------------------------------------------ actions
TodayKey == isoformat(DateOf(today))

\* the page the user sees was rendered by a completed run
PageShown == status = "done" /\ data.loaded /\ clicks < MaxClicks

TodayItems == data.doc.tasks[TodayKey].items

\* the script runs with widget event ev; h is the observer's next value
Run(ev, h) ==
    \E r \in {RunScript(file, ev, DateOf(today))} :
       /\ file' = r.file
       /\ data' = r.data
       /\ status' = r.status
       /\ snap' = r.snap
       /\ shown' = r.shown
       /\ report' = r.report
       /\ last' = ev.kind
       /\ clicks' = IF ev.kind \in {"none", "rerun"} THEN clicks ELSE clicks + 1
       /\ cause' = IF r.status = "rerun" THEN ev.kind
                   ELSE IF ev.kind = "rerun" THEN cause ELSE "none"
       /\ hist' = h
       /\ UNCHANGED <<today, eng>>

\* the browser opens or reloads the page
Refresh ==
    /\ status \in {"init", "done", "crashed"}
    /\ Run(NoEvent, "idle")

\* the run that st.experimental_rerun() asked for
Rerun ==
    /\ status = "rerun"
    /\ Run([kind |-> "rerun"], "idle")

ChangeStartDate ==
    /\ PageShown
    /\ \E d \in Dates : Run([kind |-> "changeStart", date |-> d], "idle")

SaveMainGoal ==
    /\ PageShown
    /\ \E g \in MainGoals :
          Run([kind |-> "saveMainGoal", goal |-> g.goal, progress |-> g.progress], "idle")

AddTask ==
    /\ PageShown
    /\ \E n \in TaskNames, p \in Priorities :
          Run([kind |-> "addTask", task |-> n, priority |-> p], "added")

ToggleTask ==
    /\ PageShown
    /\ \E i \in 1..Len(TodayItems) :
          Run([kind |-> "toggleTask", index |-> i],
              IF hist = "added" /\ i = 1 /\ ~TodayItems[1].done THEN "set0" ELSE "idle")

DeleteTask ==
    /\ PageShown
    /\ \E i \in 1..Len(TodayItems) : Run([kind |-> "deleteTask", index |-> i], "idle")

ResetTodayStreak ==
    /\ PageShown
    /\ Run([kind |-> "resetToday"], "idle")

ResetCurrentStreak ==
    /\ PageShown
    /\ Run([kind |-> "resetCurrent"], "idle")

AddGoal ==
    /\ PageShown
    /\ \E t \in GoalTypes, g \in GoalTexts :
          Run([kind |-> "addGoal", goal_type |-> t, goal |-> g], "idle")

ToggleGoal ==
    /\ PageShown
    /\ \E seg \in Segments : \E i \in 1..Len(data.doc.goals[seg]) :
          Run([kind |-> "toggleGoal", seg |-> seg, index |-> i], "idle")

DeleteGoal ==
    /\ PageShown
    /\ \E seg \in Segments : \E i \in 1..Len(data.doc.goals[seg]) :
          Run([kind |-> "deleteGoal", seg |-> seg, index |-> i], "idle")

\* datetime.date.today() moves to the next day (not while a re-run is pending)
Midnight ==
    /\ status # "rerun"
    /\ today < MaxDay
    /\ today' = today + 1
    /\ hist' = "idle"
    /\ UNCHANGED <<file, data, status, clicks, last, cause, snap, shown, report, eng>>

Next ==
    \/ Refresh
    \/ Rerun
    \/ ChangeStartDate
    \/ SaveMainGoal
    \/ AddTask
    \/ ToggleTask
    \/ DeleteTask
    \/ ResetTodayStreak
    \/ ResetCurrentStreak
    \/ AddGoal
    \/ ToggleGoal
    \/ DeleteGoal
    \/ Midnight

Spec == Init /\ [][Next]_vars

\* --------------------------------------- the pure functions on drawn inputs
EngKeys == DayKeys \cup {Unpadded(d) : d \in Dates} \cup {"not-a-date"}

EngEntries == [k : EngKeys, v : BOOLEAN]

\* the dicts of at most MaxEntries entries, in every insertion order
StreakDicts ==
    UNION {{sd \in [1..n -> EngEntries] :
               \A i, j \in 1..n : i # j => sd[i].k # sd[j].k} : n \in 0..MaxEntries}

EngInit ==
    /\ eng \in {[stage |-> "input", sd |-> sd] : sd \in StreakDicts}
    /\ file = Absent
    /\ data = NoData
    /\ status = "init"
    /\ today = 1
    /\ clicks = 0
    /\ last = "none"
    /\ cause = "none"
    /\ hist = "idle"
    /\ snap = NoData
    /\ shown = 0
    /\ report = "none"

AppUnchanged ==
    UNCHANGED <<file, data, status, today, clicks, last, cause, hist, snap, shown, report>>

EngParse ==
    /\ eng.stage = "input"
    /\ eng' = [stage |-> "parsed", sd |-> eng.sd, parsed |-> parse_streaks(eng.sd)]
    /\ AppUnchanged

EngStreak ==
    /\ eng.stage = "parsed"
    /\ eng' = [stage |-> "streak", sd |-> eng.sd, parsed |-> eng.parsed,
               current |-> compute_current_streak(eng.parsed)]
    /\ AppUnchanged

\* the chart is computed only `if data.get("streaks")`
EngMonthly ==
    /\ eng.stage = "input"
    /\ eng.sd # <<>>
    /\ eng' = [stage |-> "monthly", sd |-> eng.sd, monthly |-> monthly_streak(eng.sd)]
    /\ AppUnchanged

EngNext == EngParse \/ EngStreak \/ EngMonthly

SpecEngine == EngInit /\ [][EngNext]_vars

\* ================================================================== claims
SnapItems == snap.doc.tasks[snap.key].items

SnapStreak == Get(snap.doc.streaks, snap.key)

\* the last run changed today's task list, or is the re-run a deletion asked
\* for, and reached the recompute of lines 164-166
TaskMutationRecomputed ==
    /\ snap.loaded
    /\ \/ last \in {"addTask", "toggleTask"}
       \/ last = "rerun" /\ cause = "deleteTask"

\* C1: for a day with at least one task, after a task mutation (add, toggle,
\* delete) and the recompute that follows it, streaks[day] is the conjunction
\* of the done flags of the day's tasks.
C1_StreakIsConjunction ==
    (TaskMutationRecomputed /\ SnapItems # <<>>)
        => (SnapStreak <=> \A i \in 1..Len(SnapItems) : SnapItems[i].done)

C1_Witness ==
    /\ TaskMutationRecomputed
    /\ last = "toggleTask"
    /\ Len(SnapItems) = 2
    /\ SnapItems[1].done /\ ~SnapItems[2].done
    /\ ~SnapStreak

\* C2: when deleteTask removes the last task of a day (the list is empty, the
\* day key still in tasks), the recompute that follows yields streaks[day] = false.
C2_EmptyDayNotCompleted ==
    (/\ snap.loaded
     /\ last = "rerun" /\ cause = "deleteTask"
     /\ snap.doc.tasks[snap.key].has
     /\ SnapItems = <<>>)
        => ~SnapStreak

\* C3: after resetToday and the re-run it triggers, streaks[today] is still
\* false, even when every task of today is done.
C3_ResetTodayPersists ==
    (status = "done" /\ last = "rerun" /\ cause = "resetToday")
        => ~Get(data.doc.streaks, snap.key)

\* C6: after addTask and then setDone of the day's first task to true, and the
\* recompute, streaks[day] is true iff the added task is the day's only task.
C6_AddThenSetDone ==
    hist = "set0"
        => (/\ status = "done"
            /\ Get(data.doc.streaks, TodayKey) <=> (Len(TodayItems) = 1))

C6_Witness ==
    /\ hist = "set0"
    /\ Len(TodayItems) = 2
    /\ TodayItems[1].done
    /\ ~Get(data.doc.streaks, TodayKey)

C6_WitnessOnly ==
    /\ hist = "set0"
    /\ Len(TodayItems) = 1
    /\ Get(data.doc.streaks, TodayKey)

\* C7: load never raises to its caller; on an absent or malformed file the
\* run goes on with the default document.
C7_LoadNeverRaises == status # "crashed"

\* C8: at the end of every run and at every re-run point the persisted
\* document equals the in-memory document.
C8_PersistedEqualsMemory ==
    status \in {"done", "rerun"} => (data.loaded /\ file = json_dump(data.doc))

C8_Witness ==
    /\ status = "rerun"
    /\ cause = "resetToday"
    /\ snap.loaded /\ SnapStreak
    /\ data.doc # snap.doc
    /\ file = json_dump(data.doc)

\* indices of the entries of sd with a parsable key and value true
ValidTrue(sd) == {i \in 1..Len(sd) : ValidEntry(sd[i]) /\ sd[i].v}

\* the document after the Reset Current Streak run is the one before the
\* button with exactly entry i of streaks set to false
ClearedExactly(pre, post, i) ==
    post = [pre EXCEPT !.streaks = [pre.streaks EXCEPT ![i].v = FALSE]]

BreakActiveStreakAsClaimed(pre, post) ==
    LET T == ValidTrue(pre.streaks)
    IN IF T # {}
       THEN /\ report = "broken"
            /\ \E i \in T :
                  /\ \A j \in T : ~DateLess(strptime(pre.streaks[i].k),
                                            strptime(pre.streaks[j].k))
                  /\ ClearedExactly(pre, post, i)
       ELSE /\ report = "nothing"
            /\ post = pre

C4_OnPaddedKeys ==
    (/\ last = "resetCurrent"
     /\ \A k \in Keys(snap.doc.streaks) : strptime(k) # NoDate => k \in DayKeys)
        => BreakActiveStreakAsClaimed(snap.doc, data.doc)

\* C10: the Reset Current Streak button changes the document only when the
\* current streak is greater than 0, and reports that there is no active
\* streak exactly when the current streak is 0 (stated on the documents that
\* hold no other keys than the application's own).
C10_ResetOnlyActiveStreak ==
    (last = "resetCurrent" /\ Keys(snap.doc.streaks) \subseteq DayKeys)
        => /\ data.doc # snap.doc => shown > 0
           /\ report = "nothing" <=> shown = 0

\* ------------------------------------------------ claims on the pure functions
\* indices of the entries of the drawn map whose key is a valid date
EngValid == {i \in 1..Len(eng.sd) : ValidEntry(eng.sd[i])}

EngParsedOf(i) == [d |-> strptime(eng.sd[i].k), done |-> eng.sd[i].v]

\* p holds the valid-date entries of the drawn map, each as often as the map
\* does, in ascending date order
ParsedIsSortedValidEntries(p) ==
    /\ Len(p) = Cardinality(EngValid)
    /\ \A i \in EngValid :
          Cardinality({j \in 1..Len(p) : p[j] = EngParsedOf(i)})
              = Cardinality({j \in EngValid : EngParsedOf(j) = EngParsedOf(i)})
    /\ \A i, j \in 1..Len(p) : i < j => ~DateLess(p[j].d, p[i].d)

\* n is the length of the longest run of true values at the end of p
LongestTrailingRun(p, n) ==
    /\ n \in 0..Len(p)
    /\ \A i \in (Len(p) - n + 1)..Len(p) : p[i].done
    /\ n < Len(p) => ~p[Len(p) - n].done

\* C5: the current streak is the length of the longest run of true values
\* ending at the entry with the latest valid date, over the valid-date entries
\* in ascending date order (0 with no valid-date entry or a false latest
\* entry); keys that are not valid dates do not change the result.
C5_CurrentStreak ==
    eng.stage = "streak"
        => /\ ParsedIsSortedValidEntries(eng.parsed)
           /\ LongestTrailingRun(eng.parsed, eng.current)
           /\ eng.current = compute_current_streak(
                                parse_streaks(SelectSeq(eng.sd, ValidEntry)))

C5_Witness ==
    /\ eng.stage = "streak"
    /\ eng.current = 2
    /\ Len(eng.parsed) = 2
    /\ eng.parsed[1].d # eng.parsed[2].d
    /\ HasKey(eng.sd, "not-a-date")
    /\ DateLess(strptime(eng.sd[Len(eng.sd)].k), strptime(eng.sd[1].k))

EngMonthAt(i) == MonthOf(strptime(eng.sd[i].k))

\* C9: the monthly counts hold, in ascending month order, exactly one pair for
\* each month with a valid-date entry, its count the number of that month's
\* entries that are true (0 allowed); a month without an entry is omitted.
C9_MonthlyCounts ==
    eng.stage = "monthly"
        => LET m == eng.monthly
           IN /\ \A a, b \in 1..Len(m) : a < b => MonthLess(m[a].month, m[b].month)
              /\ {m[a].month : a \in 1..Len(m)} = {EngMonthAt(i) : i \in EngValid}
              /\ \A a \in 1..Len(m) :
                    m[a].done = Cardinality({i \in EngValid :
                                    EngMonthAt(i) = m[a].month /\ eng.sd[i].v})

C9_Witness ==
    /\ eng.stage = "monthly"
    /\ Len(eng.monthly) = 2
    /\ eng.monthly[1].done = 0
    /\ eng.monthly[2].done = 1
    /\ HasKey(eng.sd, "not-a-date")

====
